---- MODULE Spec2Model ----
(***************************************************************************)
(* Model of simple_copier_server.py: the in-memory relay between master    *)
(* EAs (upload_signal) and slave EAs (slave_poll), its background sweeper  *)
(* (cleanup_old_signals), register_slave and clear_signals.                *)
(*                                                                         *)
(* Time is the wall clock in milliseconds since the process started.       *)
(* Each request handler is one atomic action (sequential execution of the  *)
(* handlers); a sweeper pass is one atomic action that fires when its      *)
(* time.sleep(60) ends.                                                    *)
(***************************************************************************)
EXTENDS Integers, Sequences, FiniteSets, TLC

VARIABLES
    signals_queue,            \* master_id -> list of signals          (line 15)
    slaves,                   \* master_id -> set of registered slave_ids (line 16)
    slave_processed_signals,  \* slave_id -> set of signal ids         (line 17)
    now,                      \* datetime.now(), in ms
    wake,                     \* when the sweeper's time.sleep(60) returns
    arrivals,                 \* history: number of signals stamped by upload_signal
    accepted,                 \* history: master_id -> signals appended, in order
    got,                      \* history: slave_id -> signals returned, in order
    clearedAt,                \* history: slave_id -> Len(got) at its last clear, or -1
    trimmed,                  \* history: slave_id -> its processed set was trimmed
    last,                     \* history: the request handled last and its response
    threads                   \* thread -> its position in its code and its locals

vars == <<signals_queue, slaves, slave_processed_signals, now, wake,
          arrivals, accepted, got, clearedAt, trimmed>>

\* last and threads are used by the specifications that record the requests
\* and by those that run the handlers as threads; elsewhere they stay as they
\* are initially
aux == <<last, threads>>

allvars == <<vars, aux>>

----------------------------------------------------------------------------
(* Bounds of the model; each specification below has its own four *)

MaxIngest == 2        \* signals stamped by upload_signal
MaxGot == 3           \* signals returned to one slave
MaxOffset == 1        \* 1 ms clock steps after each sweeper wake-up
MaxSweeps == 1        \* sweeper passes since process start

(* Program constants *)

MaxQueueSize == 50            \* upload_signal, line 184
MaxProcessed == 200           \* slave_poll, line 305
SleepSeconds == 60            \* cleanup_old_signals, line 23
RetentionSeconds == 600       \* cleanup_old_signals, line 39
SecondsPerDay == 86400        \* range of timedelta.seconds
MsPerSecond == 1000           \* int(timestamp() * 1000), line 131

Masters == {"M1", "M2"}
Slaves == {"S1", "S2"}
Tickets == {1, 2}

valid_actions == {"NEW_TRADE", "NEW_PENDING", "MODIFY_TRADE", "MODIFY_PENDING",
                  "CLOSE_TRADE", "DELETE_ORDER", "INIT_TEST", "HEARTBEAT"}

----------------------------------------------------------------------------
(* Helpers *)

\* dict.get(key) for a key that may be absent; the callers compare the result
\* only with values of the key's own type
Has(d, k) == k \in DOMAIN d

\* not d.get(k), for a key whose values are strings: absent or empty
Missing(d, k) == ~Has(d, k) \/ d[k] = ""

\* f"{master_ticket}_{action}_{int(datetime.now().timestamp() * 1000)}"
MakeSignalId(master_ticket, action, t) ==
    ToString(master_ticket) \o "_" \o action \o "_" \o ToString(t)

\* datetime.isoformat(): the instant as whole seconds and a fractional part
IsoFormat(t) == [sec |-> t \div MsPerSecond, frac |-> t % MsPerSecond]

\* datetime.fromisoformat()
FromIsoFormat(s) == s.sec * MsPerSecond + s.frac

\* timedelta.seconds of the difference d (in ms): the seconds field of the
\* normalised (days, seconds, microseconds) triple, always in 0..86399
TimedeltaSeconds(d) == (d \div MsPerSecond) % SecondsPerDay

\* q[-n:]
LastN(q, n) == IF Len(q) > n THEN SubSeq(q, Len(q) - n + 1, Len(q)) ELSE q

Range(q) == {q[i] : i \in 1..Len(q)}

Restrict(f, S) == [k \in S |-> f[k]]

Put(f, k, v) == [x \in DOMAIN f \cup {k} |-> IF x = k THEN v ELSE f[x]]

Drop(f, k) == Restrict(f, DOMAIN f \ {k})

SleepMs == SleepSeconds * MsPerSecond

----------------------------------------------------------------------------
(* Requests *)

\* the JSON body of POST /upload_signal: a dict whose keys may be absent
UploadBody(m, a, t, sy) ==
    [master_id |-> m, action |-> a, master_ticket |-> t, symbol |-> sy]

----------------------------------------------------------------------------
(* upload_signal, lines 79-208 *)

\* lines 126-132: the request body with server_timestamp and signal_id added;
\* seq is the arrival number of the signal and stands for the rest of the
\* payload, which the server carries through untouched
Stamp(data, t, n) ==
    data @@ [server_timestamp |-> IsoFormat(t),
             signal_id |-> MakeSignalId(data.master_ticket, data.action, t),
             seq |-> n]

\* a duplicate check that looks at the newest queued signal only
IsDuplicateOfNewest(q, data) ==
    /\ q # <<>>
    /\ q[Len(q)].master_ticket = data.master_ticket
    /\ q[Len(q)].action = data.action
    /\ Has(q[Len(q)], "symbol") /\ q[Len(q)].symbol = data.symbol

\* lines 166-177
IsDuplicate(q, data) ==
    \E i \in 1..Len(q) :
        /\ q[i].master_ticket = data.master_ticket
        /\ q[i].action = data.action
        /\ Has(q[i], "symbol") /\ q[i].symbol = data.symbol

\* a removal that spares the modifications queued for the ticket
RemoveTicketOpens(q, master_ticket) ==
    SelectSeq(q, LAMBDA s : s.master_ticket # master_ticket
                            \/ s.action \in {"MODIFY_TRADE", "MODIFY_PENDING"})

\* lines 150-154
RemoveTicket(q, master_ticket) ==
    SelectSeq(q, LAMBDA s : s.master_ticket # master_ticket)

\* an insertion that appends a close or delete without removing anything
InsertKeepingTicket(q, sig) ==
    IF sig.action \in {"MODIFY_TRADE", "MODIFY_PENDING", "DELETE_ORDER", "CLOSE_TRADE"}
    THEN Append(q, sig)
    ELSE IF IsDuplicate(q, sig) THEN q ELSE Append(q, sig)

\* lines 138-181: the queue after the insertion policy of the action
Insert(q, sig) ==
    IF sig.action \in {"MODIFY_TRADE", "MODIFY_PENDING"}
    THEN Append(q, sig)
    ELSE IF sig.action \in {"DELETE_ORDER", "CLOSE_TRADE"}
    THEN Append(RemoveTicket(q, sig.master_ticket), sig)
    ELSE IF IsDuplicate(q, sig) THEN q ELSE Append(q, sig)

\* a cap that keeps the oldest signals
KeepOldest(q) == IF Len(q) > MaxQueueSize THEN SubSeq(q, 1, MaxQueueSize) ELSE q

\* lines 183-187
CapQueue(q) == IF Len(q) > MaxQueueSize THEN LastN(q, MaxQueueSize) ELSE q

\* lines 95-119: the error of a rejected body, or "" when it is valid
UploadError(data) ==
    IF data = <<>> THEN "No data provided"
    ELSE IF Missing(data, "master_id") \/ Missing(data, "action") \/ ~Has(data, "master_ticket")
    THEN "Missing master_id, action, or master_ticket"
    ELSE IF data.action \notin valid_actions THEN "Invalid action"
    ELSE IF data.action \notin {"DELETE_ORDER", "INIT_TEST", "HEARTBEAT"} /\ ~Has(data, "symbol")
    THEN "Missing symbol for action"
    ELSE ""

QueueOf(m) == IF m \in DOMAIN signals_queue THEN signals_queue[m] ELSE <<>>

\* a response that treats INIT_TEST and HEARTBEAT as signals to queue
UploadResponseNoAck(data) ==
    IF UploadError(data) # ""
    THEN [code |-> 400, error |-> UploadError(data)]
    ELSE [code |-> 200, status |-> "received", master_id |-> data.master_id,
          action |-> data.action, ticket |-> data.master_ticket,
          signal_id |-> MakeSignalId(data.master_ticket, data.action, now)]

\* lines 96-99, 114, 119, 124, 193-201: the response to the request
UploadResponse(data) ==
    IF UploadError(data) # ""
    THEN [code |-> 400, error |-> UploadError(data)]
    ELSE IF data.action \in {"INIT_TEST", "HEARTBEAT"}
    THEN [code |-> 200, status |-> "acknowledged", action |-> data.action]
    ELSE [code |-> 200, status |-> "received", master_id |-> data.master_id,
          action |-> data.action, ticket |-> data.master_ticket,
          signal_id |-> MakeSignalId(data.master_ticket, data.action, now)]

upload_signal(data) ==
    IF UploadResponse(data).code = 400 \/ UploadResponse(data).status = "acknowledged"
    THEN UNCHANGED vars
    ELSE LET m == data.master_id
             sig == Stamp(data, now, arrivals + 1)
             q0 == QueueOf(m)
             q1 == Insert(q0, sig)
             appended == q1 # q0
         IN /\ signals_queue' = Put(signals_queue, m, CapQueue(q1))
            /\ arrivals' = arrivals + 1
            /\ accepted' = IF appended
                           THEN [accepted EXCEPT ![m] = Append(@, sig)]
                           ELSE accepted
            /\ UNCHANGED <<slaves, slave_processed_signals, now, wake, got, clearedAt, trimmed>>

----------------------------------------------------------------------------
(* register_slave, lines 211-252 *)

\* slave_info (lines 230-233, 270-273) holds the two timestamps registered_at
\* and last_poll, which no handler reads; the model keeps which slaves are
\* registered with a master and leaves the two values out
SlavesOf(m) == IF m \in DOMAIN slaves THEN slaves[m] ELSE {}

\* lines 227-233, 266-276
Registered(m, s) == Put(slaves, m, SlavesOf(m) \cup {s})

\* lines 217-224, 241-248: the response to the request
RegisterResponse(data) ==
    IF data = <<>> THEN [code |-> 400, error |-> "No data provided"]
    ELSE IF Missing(data, "slave_id") \/ Missing(data, "master_id")
    THEN [code |-> 400, error |-> "Missing slave_id or master_id"]
    ELSE [code |-> 200, status |-> "registered", slave_id |-> data.slave_id,
          master_id |-> data.master_id, timestamp |-> IsoFormat(now)]

register_slave(data) ==
    IF RegisterResponse(data).code = 400
    THEN UNCHANGED vars
    ELSE /\ slaves' = Registered(data.master_id, data.slave_id)
         /\ slave_processed_signals' =
                IF data.slave_id \in DOMAIN slave_processed_signals
                THEN slave_processed_signals
                ELSE Put(slave_processed_signals, data.slave_id, {})
         /\ UNCHANGED <<signals_queue, now, wake, arrivals, accepted, got, clearedAt, trimmed>>

----------------------------------------------------------------------------
(* slave_poll, lines 255-329 *)

TrackerOf(s) ==
    IF s \in DOMAIN slave_processed_signals THEN slave_processed_signals[s] ELSE {}

\* a scan that returns the newest unprocessed signal instead of the oldest
NewestUnprocessed(q, processed) ==
    IF \E i \in 1..Len(q) : q[i].signal_id \notin processed
    THEN CHOOSE i \in 1..Len(q) :
            /\ q[i].signal_id \notin processed
            /\ \A j \in (i + 1)..Len(q) : q[j].signal_id \in processed
    ELSE 0

\* a scan that does not consult the processed set
OldestSignal(q, processed) == IF q = <<>> THEN 0 ELSE 1

\* lines 286-302: the index of the oldest signal of q whose id is not in
\* processed, or 0 when there is none
FirstUnprocessed(q, processed) ==
    IF \E i \in 1..Len(q) : q[i].signal_id \notin processed
    THEN CHOOSE i \in 1..Len(q) :
            /\ q[i].signal_id \notin processed
            /\ \A j \in 1..(i - 1) : q[j].signal_id \in processed
    ELSE 0

\* a poll that delivers to registered slaves only
SignalsIfRegistered(m, s) ==
    IF /\ s \in SlavesOf(m)
       /\ m \in DOMAIN signals_queue
       /\ FirstUnprocessed(signals_queue[m], TrackerOf(s)) # 0
    THEN <<signals_queue[m][FirstUnprocessed(signals_queue[m], TrackerOf(s))]>>
    ELSE <<>>

\* lines 279-302, 310: signals_to_return
SignalsToReturn(m, s) ==
    IF m \in DOMAIN signals_queue /\ FirstUnprocessed(signals_queue[m], TrackerOf(s)) # 0
    THEN <<signals_queue[m][FirstUnprocessed(signals_queue[m], TrackerOf(s))]>>
    ELSE <<>>

\* lines 263, 315-322: the response to the request
PollResponse(args) ==
    IF Missing(args, "slave_id") \/ Missing(args, "master_id")
    THEN [code |-> 400, error |-> "Missing slave_id or master_id"]
    ELSE [code |-> 200, status |-> "ok",
          signals |-> SignalsToReturn(args.master_id, args.slave_id),
          count |-> Len(SignalsToReturn(args.master_id, args.slave_id))]

\* lines 293-294: the processed set with the returned signal marked
Marked(m, s) ==
    TrackerOf(s) \cup {sig.signal_id : sig \in Range(SignalsToReturn(m, s))}

\* lines 304-307: set(list(processed)[-200:]); the order of list(set) is the
\* set's hash order, so any 200 of the ids may be the ones kept.  One id is
\* added per poll, so a set over the limit holds exactly 201 ids.
Trimmed(processed) ==
    IF Cardinality(processed) > MaxProcessed
    THEN {processed \ {d} : d \in processed}
    ELSE {processed}

slave_poll(args) ==
    IF PollResponse(args).code = 400
    THEN UNCHANGED vars
    ELSE LET m == args.master_id
             s == args.slave_id
         IN /\ slaves' = Registered(m, s)
            /\ IF m \in DOMAIN signals_queue
               THEN \E kept \in Trimmed(Marked(m, s)) :
                        /\ slave_processed_signals' = Put(slave_processed_signals, s, kept)
                        /\ trimmed' = [trimmed EXCEPT ![s] = @ \/ kept # Marked(m, s)]
               ELSE UNCHANGED <<slave_processed_signals, trimmed>>
            /\ got' = [got EXCEPT ![s] = @ \o PollResponse(args).signals]
            /\ UNCHANGED <<signals_queue, now, wake, arrivals, accepted, clearedAt>>

----------------------------------------------------------------------------
(* clear_signals, lines 332-364 *)

\* lines 340-361: the response to the request
ClearResponse(data) ==
    LET slave_processed ==
            IF ~Missing(data, "slave_id") /\ data.slave_id \in DOMAIN slave_processed_signals
            THEN [slave_processed |-> Cardinality(slave_processed_signals[data.slave_id])]
            ELSE <<>>
        master_queue ==
            IF ~Missing(data, "master_id") /\ data.master_id \in DOMAIN signals_queue
            THEN [master_queue |-> Len(signals_queue[data.master_id])]
            ELSE <<>>
        cleared == slave_processed @@ master_queue
    IN IF cleared # <<>>
       THEN [status |-> "cleared"] @@ cleared
       ELSE [status |-> "nothing_to_clear"]

\* a clear that deletes every queue when a master is named
clear_every_queue(data) ==
    /\ slave_processed_signals' =
           IF Has(ClearResponse(data), "slave_processed")
           THEN [slave_processed_signals EXCEPT ![data.slave_id] = {}]
           ELSE slave_processed_signals
    /\ signals_queue' =
           IF Has(ClearResponse(data), "master_queue")
           THEN <<>>
           ELSE signals_queue
    /\ clearedAt' = IF Has(ClearResponse(data), "slave_processed")
                  THEN [clearedAt EXCEPT ![data.slave_id] = Len(got[data.slave_id])]
                  ELSE clearedAt
    /\ UNCHANGED <<slaves, now, wake, arrivals, accepted, got, trimmed>>

clear_signals(data) ==
    /\ slave_processed_signals' =
           IF Has(ClearResponse(data), "slave_processed")
           THEN [slave_processed_signals EXCEPT ![data.slave_id] = {}]
           ELSE slave_processed_signals
    /\ signals_queue' =
           IF Has(ClearResponse(data), "master_queue")
           THEN Drop(signals_queue, data.master_id)
           ELSE signals_queue
    /\ clearedAt' = IF Has(ClearResponse(data), "slave_processed")
                  THEN [clearedAt EXCEPT ![data.slave_id] = Len(got[data.slave_id])]
                  ELSE clearedAt
    /\ UNCHANGED <<slaves, now, wake, arrivals, accepted, got, trimmed>>

----------------------------------------------------------------------------
(* cleanup_old_signals, lines 20-47 *)

\* a test that keeps a signal for one second more
IsRecentOrDue(s, t) ==
    TimedeltaSeconds(t - FromIsoFormat(s.server_timestamp)) <= RetentionSeconds

\* lines 33-39
IsRecent(s, t) ==
    TimedeltaSeconds(t - FromIsoFormat(s.server_timestamp)) < RetentionSeconds

\* lines 30-40
KeepRecent(q, t) == SelectSeq(q, LAMBDA s : IsRecent(s, t))

\* lines 26-47: one pass over all masters
Swept(queues, t) ==
    LET kept == [m \in DOMAIN queues |-> KeepRecent(queues[m], t)]
    IN Restrict(kept, {m \in DOMAIN queues : kept[m] # <<>>})

cleanup_old_signals ==
    /\ now = wake
    /\ signals_queue' = Swept(signals_queue, now)
    /\ wake' = now + SleepMs
    /\ UNCHANGED <<slaves, slave_processed_signals, now, arrivals, accepted, got, clearedAt, trimmed>>

----------------------------------------------------------------------------
(* The clock *)

\* one millisecond passes
Tick ==
    /\ now < wake
    /\ now' = now + 1
    /\ UNCHANGED <<signals_queue, slaves, slave_processed_signals, wake,
                   arrivals, accepted, got, clearedAt, trimmed>>

\* time passes until the sweeper's time.sleep(60) ends
Sleep ==
    /\ now < wake
    /\ now' = wake
    /\ UNCHANGED <<signals_queue, slaves, slave_processed_signals, wake,
                   arrivals, accepted, got, clearedAt, trimmed>>

----------------------------------------------------------------------------
(* The server: state after the module is loaded (lines 15-17, 50-51) *)

NoRequest == [op |-> "none"]

\* the sweeper thread (lines 50-51) and the threads that serve requests
Workers == {"T1", "T2"}

Idle == [t \in Workers \cup {"sweeper"} |-> [pc |-> "idle"]]

Init ==
    /\ last = NoRequest
    /\ threads = Idle
    /\ signals_queue = <<>>
    /\ slaves = <<>>
    /\ slave_processed_signals = <<>>
    /\ now = 0
    /\ wake = SleepMs
    /\ arrivals = 0
    /\ accepted = [m \in Masters |-> <<>>]
    /\ got = [s \in Slaves |-> <<>>]
    /\ clearedAt = [s \in Slaves |-> -1]
    /\ trimmed = [s \in Slaves |-> FALSE]

\* the clock reading relative to the sweeper's last wake-up
Offset == now - (wake - SleepMs)

\* the number of sweeper passes so far
Sweeps == (wake \div SleepMs) - 1

\* the server with its requests drawn from U (uploads), R (registrations),
\* P (polls) and C (clears)
Server(U, R, P, C, maxIngest, maxGot, maxOffset, maxSweeps) ==
    \/ \E data \in U : arrivals < maxIngest /\ upload_signal(data) /\ UNCHANGED aux
    \/ \E data \in R : register_slave(data) /\ UNCHANGED aux
    \/ \E args \in P :
           /\ slave_poll(args)
           /\ \A s \in Slaves : Len(got'[s]) <= maxGot
           /\ UNCHANGED aux
    \/ \E data \in C : clear_signals(data) /\ UNCHANGED aux
    \/ Sweeps < maxSweeps /\ cleanup_old_signals /\ UNCHANGED aux
    \/ Offset < maxOffset /\ Tick /\ UNCHANGED aux
    \/ Sweeps < maxSweeps /\ Sleep /\ UNCHANGED aux

Uploads(M, A, T, Y) ==
    {UploadBody(m, a, t, sy) : m \in M, a \in A, t \in T, sy \in Y}

Pairs(S, M) == {[slave_id |-> s, master_id |-> m] : s \in S, m \in M}

Next ==
    Server(Uploads({"M1"}, {"NEW_TRADE", "MODIFY_TRADE", "CLOSE_TRADE", "HEARTBEAT"},
                   {1}, {"EURUSD"}) \cup {<<>>},
           Pairs({"S2"}, {"M1"}) \cup {[slave_id |-> "S1"]},
           Pairs(Slaves, {"M1"}) \cup {[master_id |-> "M1"]},
           {[slave_id |-> "S1"], [master_id |-> "M1"], <<>>},
           MaxIngest, MaxGot, MaxOffset, MaxSweeps)

Spec == Init /\ [][Next]_allvars

----------------------------------------------------------------------------
(* The server with more uploads for one master: supersession *)

SupersedeMaxIngest == 4
SupersedeMaxGot == 1
SupersedeMaxOffset == 1
SupersedeMaxSweeps == 1

NextSupersede ==
    Server(Uploads({"M1"}, {"MODIFY_TRADE", "CLOSE_TRADE"}, Tickets, {"EURUSD"}),
           Pairs({"S1"}, {"M1"}),
           Pairs({"S1"}, {"M1"}),
           {[master_id |-> "M1"]},
           SupersedeMaxIngest, SupersedeMaxGot, SupersedeMaxOffset, SupersedeMaxSweeps)

SpecSupersede == Init /\ [][NextSupersede]_allvars

----------------------------------------------------------------------------
(* The server with more uploads for one master: duplicates *)

DedupMaxIngest == 3
DedupMaxGot == 1
DedupMaxOffset == 1
DedupMaxSweeps == 1

NextDedup ==
    Server(Uploads({"M1"}, {"NEW_TRADE", "NEW_PENDING"}, Tickets, {"EURUSD", "GBPUSD"})
               \cup {Restrict(UploadBody("M1", "DELETE_ORDER", 1, ""),
                              {"master_id", "action", "master_ticket"})},
           Pairs({"S1"}, {"M1"}),
           Pairs({"S1"}, {"M1"}),
           {[master_id |-> "M1"]},
           DedupMaxIngest, DedupMaxGot, DedupMaxOffset, DedupMaxSweeps)

SpecDedup == Init /\ [][NextDedup]_allvars

----------------------------------------------------------------------------
(* The server one minute after a master filled its queue up to the limit *)

CapExtra == 3            \* signals stamped by upload_signal per behaviour
CapFilled == MaxQueueSize - 1
CapMaxIngest == CapFilled + CapExtra
CapMaxGot == 1
CapMaxOffset == 1
CapMaxSweeps == 2

\* the i-th of a series of uploads, one per millisecond from process start
Burst(action, ticket, i) ==
    Stamp(UploadBody("M1", action, ticket, "EURUSD"), i, i)

\* M1 uploaded NEW_TRADE for tickets 1, 2, ... in the first milliseconds; the
\* sweeper ran once and found nothing to remove
InitCap ==
    /\ last = NoRequest
    /\ threads = Idle
    /\ signals_queue = [m \in {"M1"} |-> [i \in 1..CapFilled |-> Burst("NEW_TRADE", i, i)]]
    /\ slaves = <<>>
    /\ slave_processed_signals = <<>>
    /\ now = SleepMs
    /\ wake = 2 * SleepMs
    /\ arrivals = CapFilled
    /\ accepted = [m \in Masters |->
                      IF m = "M1" THEN [i \in 1..CapFilled |-> Burst("NEW_TRADE", i, i)]
                      ELSE <<>>]
    /\ got = [s \in Slaves |-> <<>>]
    /\ clearedAt = [s \in Slaves |-> -1]
    /\ trimmed = [s \in Slaves |-> FALSE]

NextCap ==
    Server(Uploads({"M1"}, {"NEW_TRADE"}, {1, 1001, 1002}, {"EURUSD"})
               \cup Uploads({"M1"}, {"CLOSE_TRADE"}, {2}, {"EURUSD"}),
           Pairs({"S1"}, {"M1"}),
           Pairs({"S1"}, {"M1"}),
           {[master_id |-> "M1"]},
           CapMaxIngest, CapMaxGot, CapMaxOffset, CapMaxSweeps)

SpecCap == InitCap /\ [][NextCap]_allvars

----------------------------------------------------------------------------
(* The server over the retention window *)

RetMaxIngest == 2
RetMaxGot == 1
RetMaxOffset == 1
RetMaxSweeps == 11

NextRet ==
    Server(Uploads({"M1"}, {"MODIFY_TRADE"}, {1}, {"EURUSD"}),
           Pairs({"S1"}, {"M1"}),
           Pairs({"S1"}, {"M1"}),
           {[slave_id |-> "S1"]},
           RetMaxIngest, RetMaxGot, RetMaxOffset, RetMaxSweeps)

SpecRet == Init /\ [][NextRet]_allvars

----------------------------------------------------------------------------
(* The server one minute after a slave's processed set reached the limit *)

TrimExtra == 1           \* signals stamped, and signals returned, per behaviour
TrimFilled == MaxProcessed
TrimMaxIngest == TrimFilled + TrimExtra
TrimMaxGot == TrimFilled + TrimExtra
TrimMaxOffset == 1
TrimMaxSweeps == 2

\* M1 uploaded a MODIFY_TRADE in each of the first milliseconds and S1 polled
\* each of them; the queue holds the last 50 of them; the sweeper ran once and
\* found nothing to remove
InitTrim ==
    /\ last = NoRequest
    /\ threads = Idle
    /\ signals_queue = [m \in {"M1"} |->
                           [i \in 1..MaxQueueSize |->
                               Burst("MODIFY_TRADE", 1, TrimFilled - MaxQueueSize + i)]]
    /\ slaves = [m \in {"M1"} |-> {"S1"}]
    /\ slave_processed_signals =
           [s \in {"S1"} |-> {Burst("MODIFY_TRADE", 1, i).signal_id : i \in 1..TrimFilled}]
    /\ now = SleepMs
    /\ wake = 2 * SleepMs
    /\ arrivals = TrimFilled
    /\ accepted = [m \in Masters |->
                      IF m = "M1" THEN [i \in 1..TrimFilled |-> Burst("MODIFY_TRADE", 1, i)]
                      ELSE <<>>]
    /\ got = [s \in Slaves |->
                 IF s = "S1" THEN [i \in 1..TrimFilled |-> Burst("MODIFY_TRADE", 1, i)]
                 ELSE <<>>]
    /\ clearedAt = [s \in Slaves |-> -1]
    /\ trimmed = [s \in Slaves |-> FALSE]

NextTrim ==
    Server(Uploads({"M1"}, {"MODIFY_TRADE"}, {1}, {"EURUSD"}),
           Pairs({"S1"}, {"M1"}),
           Pairs({"S1"}, {"M1"}),
           {[master_id |-> "M1"]},
           TrimMaxIngest, TrimMaxGot, TrimMaxOffset, TrimMaxSweeps)

SpecTrim == InitTrim /\ [][NextTrim]_allvars

----------------------------------------------------------------------------
(* The server with its requests and responses recorded *)

\* this step handles the request and answers it with the response
Handles(op, request, response) ==
    /\ last' = [op |-> op, request |-> request, response |-> response]
    /\ UNCHANGED threads

\* this step is not a request
Passes(op) == last' = [op |-> op] /\ UNCHANGED threads

RecordingServer(U, R, P, C, maxIngest, maxGot, maxOffset, maxSweeps) ==
    \/ \E data \in U :
           /\ arrivals < maxIngest
           /\ upload_signal(data)
           /\ Handles("upload_signal", data, UploadResponse(data))
    \/ \E data \in R :
           /\ register_slave(data)
           /\ Handles("register_slave", data, RegisterResponse(data))
    \/ \E args \in P :
           /\ slave_poll(args)
           /\ \A s \in Slaves : Len(got'[s]) <= maxGot
           /\ Handles("slave_poll", args, PollResponse(args))
    \/ \E data \in C :
           /\ clear_signals(data)
           /\ Handles("clear_signals", data, ClearResponse(data))
    \/ Sweeps < maxSweeps /\ cleanup_old_signals /\ Passes("cleanup_old_signals")
    \/ Offset < maxOffset /\ Tick /\ Passes("clock")
    \/ Sweeps < maxSweeps /\ Sleep /\ Passes("clock")

FrameMaxIngest == 2
FrameMaxGot == 2
FrameMaxOffset == 1
FrameMaxSweeps == 1

\* bodies of POST /upload_signal that lack a key, name no master or action,
\* or name an action that is not known
BadUploads ==
    {<<>>,
     Restrict(UploadBody("M2", "NEW_TRADE", 1, "EURUSD"), {"action", "master_ticket", "symbol"}),
     Restrict(UploadBody("M2", "NEW_TRADE", 1, "EURUSD"), {"master_id", "master_ticket", "symbol"}),
     Restrict(UploadBody("M2", "NEW_TRADE", 1, "EURUSD"), {"master_id", "action", "symbol"}),
     Restrict(UploadBody("M2", "NEW_TRADE", 1, "EURUSD"), {"master_id", "action", "master_ticket"}),
     UploadBody("", "NEW_TRADE", 1, "EURUSD"),
     UploadBody("M2", "", 1, "EURUSD"),
     UploadBody("M2", "OPEN_TRADE", 1, "EURUSD")}

NextFrame ==
    RecordingServer(
        Uploads(Masters, {"MODIFY_TRADE"}, {1}, {"EURUSD"})
            \cup Uploads({"M2"}, {"INIT_TEST", "HEARTBEAT"}, {1}, {"EURUSD"})
            \cup BadUploads,
        Pairs({"S1"}, {"M1"}) \cup {<<>>},
        Pairs(Slaves, {"M1"}) \cup {[slave_id |-> "S1"]},
        {[master_id |-> "M1"], [slave_id |-> "S1"],
         [master_id |-> "M1", slave_id |-> "S1"], <<>>},
        FrameMaxIngest, FrameMaxGot, FrameMaxOffset, FrameMaxSweeps)

SpecFrame == Init /\ [][NextFrame]_allvars

----------------------------------------------------------------------------
(* The server with its handlers and its sweeper run as threads.  Flask      *)
(* serves each request in a thread of its own and the sweeper is a thread   *)
(* (lines 50-51); no lock protects the three stores.  A thread takes one    *)
(* step per read or write of a store; the steps of different threads        *)
(* interleave.                                                              *)

pc(t) == threads[t].pc

Goto(t, label) == threads' = [threads EXCEPT ![t].pc = label]

\* the thread answers the request and ends
Respond(t, op, request, response) ==
    /\ last' = [op |-> op, request |-> request, response |-> response]
    /\ threads' = [threads EXCEPT ![t] = [pc |-> "idle"]]

\* lines 203-208: the handler caught an exception
InternalError == [code |-> 500, error |-> "KeyError"]

\* lines 83-132: the body is validated and the signal stamped
upload_begin(t, data) ==
    /\ pc(t) = "idle"
    /\ IF UploadResponse(data).code = 400 \/ UploadResponse(data).status = "acknowledged"
       THEN /\ Respond(t, "upload_signal", data, UploadResponse(data))
            /\ UNCHANGED vars
       ELSE /\ threads' = [threads EXCEPT ![t] =
                               [pc |-> "create", data |-> data,
                                sig |-> Stamp(data, now, arrivals + 1),
                                response |-> UploadResponse(data),
                                kept |-> <<>>, removed |-> {}, created |-> FALSE]]
            /\ arrivals' = arrivals + 1
            /\ UNCHANGED <<signals_queue, slaves, slave_processed_signals, now, wake,
                           accepted, got, clearedAt, trimmed, last>>

\* lines 135-136, and the branch of lines 139, 147, 164
upload_create(t) ==
    /\ pc(t) = "create"
    /\ LET m == threads[t].data.master_id
           action == threads[t].data.action
           label == IF action \in {"MODIFY_TRADE", "MODIFY_PENDING"} THEN "append"
                    ELSE IF action \in {"DELETE_ORDER", "CLOSE_TRADE"} THEN "filter"
                    ELSE "scan"
       IN /\ signals_queue' = IF m \in DOMAIN signals_queue THEN signals_queue
                              ELSE Put(signals_queue, m, <<>>)
          /\ threads' = [threads EXCEPT ![t].pc = label,
                                        ![t].created = m \notin DOMAIN signals_queue]
    /\ UNCHANGED <<slaves, slave_processed_signals, now, wake, arrivals, accepted,
                   got, clearedAt, trimmed, last>>

\* signals_queue[master_id] raises KeyError when the queue was deleted
upload_fail(t) ==
    /\ pc(t) \in {"filter", "scan", "append", "cap"}
    /\ threads[t].data.master_id \notin DOMAIN signals_queue
    /\ Respond(t, "upload_signal", threads[t].data, InternalError)
    /\ UNCHANGED vars

\* lines 149-154: the list comprehension reads the queue
upload_filter(t) ==
    /\ pc(t) = "filter"
    /\ threads[t].data.master_id \in DOMAIN signals_queue
    /\ threads' = [threads EXCEPT
                       ![t].pc = "replace",
                       ![t].kept = RemoveTicket(signals_queue[threads[t].data.master_id],
                                                threads[t].data.master_ticket)]
    /\ UNCHANGED <<vars, last>>

\* line 150: the new list is stored
upload_replace(t) ==
    /\ pc(t) = "replace"
    /\ LET m == threads[t].data.master_id
       IN /\ signals_queue' = Put(signals_queue, m, threads[t].kept)
          /\ threads' = [threads EXCEPT
                             ![t].pc = "append",
                             ![t].removed = Range(QueueOf(m)) \ Range(threads[t].kept)]
    /\ UNCHANGED <<slaves, slave_processed_signals, now, wake, arrivals, accepted,
                   got, clearedAt, trimmed, last>>

\* lines 166-177: the scan for a duplicate
upload_scan(t) ==
    /\ pc(t) = "scan"
    /\ threads[t].data.master_id \in DOMAIN signals_queue
    /\ Goto(t, IF IsDuplicate(signals_queue[threads[t].data.master_id], threads[t].sig)
               THEN "cap" ELSE "append")
    /\ UNCHANGED <<vars, last>>

\* lines 140, 158, 180
upload_append(t) ==
    /\ pc(t) = "append"
    /\ LET m == threads[t].data.master_id
       IN /\ m \in DOMAIN signals_queue
          /\ signals_queue' = [signals_queue EXCEPT ![m] = Append(@, threads[t].sig)]
          /\ accepted' = [accepted EXCEPT ![m] = Append(@, threads[t].sig)]
    /\ Goto(t, "cap")
    /\ UNCHANGED <<slaves, slave_processed_signals, now, wake, arrivals,
                   got, clearedAt, trimmed, last>>

\* lines 184-201
upload_cap(t) ==
    /\ pc(t) = "cap"
    /\ LET m == threads[t].data.master_id
       IN /\ m \in DOMAIN signals_queue
          /\ signals_queue' = [signals_queue EXCEPT ![m] = CapQueue(@)]
    /\ Respond(t, "upload_signal", threads[t].data, threads[t].response)
    /\ UNCHANGED <<slaves, slave_processed_signals, now, wake, arrivals, accepted,
                   got, clearedAt, trimmed>>

\* lines 259-289: registration, and the scan up to the test of line 289
poll_begin(t, args) ==
    /\ pc(t) = "idle"
    /\ IF PollResponse(args).code = 400 \/ PollResponse(args).signals = <<>>
       THEN /\ slave_poll(args)
            /\ Respond(t, "slave_poll", args, PollResponse(args))
       ELSE /\ slaves' = Registered(args.master_id, args.slave_id)
            /\ slave_processed_signals' =
                   Put(slave_processed_signals, args.slave_id, TrackerOf(args.slave_id))
            /\ threads' = [threads EXCEPT ![t] =
                               [pc |-> "mark", args |-> args,
                                signal |-> PollResponse(args).signals[1]]]
            /\ UNCHANGED <<signals_queue, now, wake, arrivals, accepted,
                           got, clearedAt, trimmed, last>>

\* lines 291-322: the signal found is marked, the set trimmed, the signal
\* returned
poll_mark(t) ==
    /\ pc(t) = "mark"
    /\ LET s == threads[t].args.slave_id
           marked == TrackerOf(s) \cup {threads[t].signal.signal_id}
       IN /\ \E kept \in Trimmed(marked) :
                 /\ slave_processed_signals' = Put(slave_processed_signals, s, kept)
                 /\ trimmed' = [trimmed EXCEPT ![s] = @ \/ kept # marked]
          /\ got' = [got EXCEPT ![s] = Append(@, threads[t].signal)]
    /\ Respond(t, "slave_poll", threads[t].args,
               [code |-> 200, status |-> "ok", signals |-> <<threads[t].signal>>, count |-> 1])
    /\ UNCHANGED <<signals_queue, slaves, now, wake, arrivals, accepted, clearedAt>>

\* lines 336-361
clear_thread(t, data) ==
    /\ pc(t) = "idle"
    /\ clear_signals(data)
    /\ Respond(t, "clear_signals", data, ClearResponse(data))

\* lines 23-26: time.sleep(60) ends; the clock and the keys are read
sweeper_wake ==
    /\ pc("sweeper") = "idle"
    /\ now = wake
    /\ threads' = [threads EXCEPT !["sweeper"] =
                       [pc |-> "pass", time |-> now, keys |-> DOMAIN signals_queue]]
    /\ UNCHANGED <<vars, last>>

\* lines 27-40: the next master; the list comprehension reads its queue
sweeper_filter ==
    /\ pc("sweeper") = "pass"
    /\ \E m \in threads["sweeper"].keys :
           threads' = [threads EXCEPT !["sweeper"] =
               IF m \in DOMAIN signals_queue
               THEN [pc |-> "store", time |-> @.time, keys |-> @.keys \ {m},
                     master_id |-> m, kept |-> KeepRecent(signals_queue[m], @.time)]
               ELSE [pc |-> "pass", time |-> @.time, keys |-> @.keys \ {m}]]
    /\ UNCHANGED <<vars, last>>

\* line 30: the new list is stored
sweeper_store ==
    /\ pc("sweeper") = "store"
    /\ signals_queue' = Put(signals_queue, threads["sweeper"].master_id, threads["sweeper"].kept)
    /\ Goto("sweeper", "prune")
    /\ UNCHANGED <<slaves, slave_processed_signals, now, wake, arrivals, accepted,
                   got, clearedAt, trimmed, last>>

\* lines 42-47: signals_queue[master_id] is read again, and an empty queue is
\* deleted; the KeyError of a queue deleted meanwhile is caught nowhere and
\* ends the thread
sweeper_prune ==
    /\ pc("sweeper") = "prune"
    /\ LET m == threads["sweeper"].master_id
       IN IF m \notin DOMAIN signals_queue
          THEN /\ threads' = [threads EXCEPT !["sweeper"] = [pc |-> "dead"]]
               /\ UNCHANGED signals_queue
          ELSE /\ threads' = [threads EXCEPT !["sweeper"] =
                                  [pc |-> "pass", time |-> @.time, keys |-> @.keys]]
               /\ signals_queue' = IF signals_queue[m] = <<>> THEN Drop(signals_queue, m)
                                   ELSE signals_queue
    /\ UNCHANGED <<slaves, slave_processed_signals, now, wake, arrivals, accepted,
                   got, clearedAt, trimmed, last>>

\* lines 22-23: the pass is over, time.sleep(60) begins
sweeper_sleep ==
    /\ pc("sweeper") = "pass"
    /\ threads["sweeper"].keys = {}
    /\ threads' = [threads EXCEPT !["sweeper"] = [pc |-> "idle"]]
    /\ wake' = now + SleepMs
    /\ UNCHANGED <<signals_queue, slaves, slave_processed_signals, now, arrivals,
                   accepted, got, clearedAt, trimmed, last>>

\* one millisecond passes, also while the sweeper is at work
ThreadTick ==
    /\ now < wake \/ pc("sweeper") # "idle"
    /\ now' = now + 1
    /\ UNCHANGED <<signals_queue, slaves, slave_processed_signals, wake,
                   arrivals, accepted, got, clearedAt, trimmed, aux>>

\* the clock reading relative to the sweeper's last wake-up, also during a
\* pass
ThreadOffset == IF pc("sweeper") = "idle" THEN Offset ELSE now - wake

\* the polls that are about to return a signal
Marking == {t \in Workers : pc(t) = "mark"}

\* a request is served by T1 when T1 is free, else by T2
Free(t) == pc(t) = "idle" /\ (t = "T2" => pc("T1") # "idle")

\* the threads with the requests drawn from U (uploads), P (polls) and C
\* (clears)
Threads(U, P, C, maxIngest, maxGot, maxOffset, maxSweeps) ==
    \/ \E t \in Workers : \E data \in U :
           Free(t) /\ arrivals < maxIngest /\ upload_begin(t, data)
    \/ \E t \in Workers : upload_create(t)
    \/ \E t \in Workers : upload_fail(t)
    \/ \E t \in Workers : upload_filter(t)
    \/ \E t \in Workers : upload_replace(t)
    \/ \E t \in Workers : upload_scan(t)
    \/ \E t \in Workers : upload_append(t)
    \/ \E t \in Workers : upload_cap(t)
    \/ \E t \in Workers : \E args \in P :
           /\ Free(t)
           /\ Len(got[args.slave_id]) + Cardinality(Marking) < maxGot
           /\ poll_begin(t, args)
    \/ \E t \in Workers : poll_mark(t)
    \/ \E t \in Workers : \E data \in C : Free(t) /\ clear_thread(t, data)
    \/ Sweeps < maxSweeps /\ sweeper_wake
    \/ sweeper_filter
    \/ sweeper_store
    \/ sweeper_prune
    \/ sweeper_sleep
    \/ ThreadOffset < maxOffset /\ ThreadTick
    \/ Sweeps < maxSweeps /\ pc("sweeper") = "idle" /\ Sleep /\ UNCHANGED aux

ThreadsMaxIngest == 1
ThreadsMaxGot == 2
ThreadsMaxOffset == 1
ThreadsMaxSweeps == 1

NextThreads ==
    Threads(Uploads({"M1"}, {"NEW_TRADE", "CLOSE_TRADE"}, {1}, {"EURUSD"}),
            Pairs({"S1"}, {"M1"}),
            {[master_id |-> "M1"]},
            ThreadsMaxIngest, ThreadsMaxGot, ThreadsMaxOffset, ThreadsMaxSweeps)

SpecThreads == Init /\ [][NextThreads]_allvars

\* the threads where no request deletes a queue: a queue changes through
\* ingestions and sweeper passes only
RacesMaxIngest == 2
RacesMaxGot == 1
RacesMaxOffset == 1
RacesMaxSweeps == 1

NextRaces ==
    Threads(Uploads({"M1"}, {"NEW_TRADE", "CLOSE_TRADE"}, {1}, {"EURUSD"}),
            Pairs({"S1"}, {"M1"}),
            {[slave_id |-> "S1"]},
            RacesMaxIngest, RacesMaxGot, RacesMaxOffset, RacesMaxSweeps)

SpecRaces == Init /\ [][NextRaces]_allvars

----------------------------------------------------------------------------
(* Vocabulary of the properties *)

Last(q) == q[Len(q)]

\* the signals of master m returned to slave s, in the order returned
GotFrom(s, m) == SelectSeq(got[s], LAMBDA e : e.master_id = m)

\* the signals returned to slave s since its processed set was last cleared
GotSinceClear(s) ==
    SubSeq(got[s], (IF clearedAt[s] < 0 THEN 0 ELSE clearedAt[s]) + 1, Len(got[s]))

\* q is in strict arrival order
InArrivalOrder(q) == \A i, j \in 1..Len(q) : i < j => q[i].seq < q[j].seq

\* this step returns a signal to slave s
Returns(s) == got'[s] # got[s]

\* a poll of master m by slave s would return nothing
Exhausted(m, s) == FirstUnprocessed(QueueOf(m), TrackerOf(s)) = 0

----------------------------------------------------------------------------
(* C1 *)

\* C1 as stated: every signal that master m's ingestion appended is returned
\* to a slave s polling m exactly once and in the order appended.  So what s
\* has received from m is at all times an initial part of what m's ingestion
\* accepted, and the rest is still queued for s.
C1_ExactlyOnceInOrder ==
    \A m \in Masters : \A s \in SlavesOf(m) :
        LET g == GotFrom(s, m)
        IN /\ Len(g) <= Len(accepted[m])
           /\ g = SubSeq(accepted[m], 1, Len(g))
           /\ \A i \in (Len(g) + 1)..Len(accepted[m]) :
                  accepted[m][i] \in Range(QueueOf(m))

C1_Received ==
    \A s \in Slaves : \A m \in Masters :
        /\ Range(GotFrom(s, m)) \subseteq Range(accepted[m])
        /\ ~trimmed[s] =>
               InArrivalOrder(SelectSeq(GotSinceClear(s), LAMBDA e : e.master_id = m))

C1_Poll ==
    \A s \in Slaves :
        Returns(s) =>
            /\ got'[s] = Append(got[s], Last(got'[s]))
            /\ Last(got'[s]) \in Range(QueueOf(Last(got'[s]).master_id))

\* C1 as amended: a poll returns at most one signal, one that the master's
\* ingestion appended and that is in the master's queue when the poll runs (a
\* signal superseded, dropped by the cap, swept or cleared before the slave
\* reaches it is never returned); and until the slave's processed set is
\* cleared or trimmed, the signals it receives from a master are pairwise
\* different and in the order in which they were appended.
C1_AtMostOnceInOrder == []C1_Received /\ [][C1_Poll]_vars

\* a slave received two signals of a master, one after the other, and a signal
\* the master's ingestion appended left the queue without reaching a slave
\* that polls the master
C1_Witness ==
    \E m \in Masters : \E s \in SlavesOf(m) :
        /\ Len(GotFrom(s, m)) >= 2
        /\ \E s2 \in SlavesOf(m) : \E e \in Range(accepted[m]) :
               e \notin Range(QueueOf(m)) /\ e \notin Range(got[s2])

----------------------------------------------------------------------------
(* C2 *)

\* C2: a poll returns the oldest signal of the queue whose id the slave has
\* not processed, so a slave whose processed set was never cleared or trimmed
\* and for which the queue of master m is exhausted has received every signal
\* of that queue, in queue order ([A, B, C] is returned as A, B, C, empty).
C2_Fifo ==
    \A m \in DOMAIN signals_queue : \A s \in Slaves :
        (clearedAt[s] < 0 /\ ~trimmed[s] /\ Exhausted(m, s)) =>
            SelectSeq(got[s], LAMBDA e : e \in Range(signals_queue[m])) = signals_queue[m]

----------------------------------------------------------------------------
(* C3 *)

\* C3: a poll returns to slave s a signal that s has received before only when
\* the signal's id is not in the processed set of s.
C3_AtMostOnceWhileTracked ==
    [][\A s \in Slaves :
          (Returns(s) /\ Last(got'[s]) \in Range(got[s])) =>
              Last(got'[s]).signal_id \notin TrackerOf(s)]_vars

\* slave s received X and then another signal; X is still queued and tracked,
\* and another slave of the master has not received X
C3_Witness ==
    \E s \in Slaves : \E s2 \in Slaves \ {s} :
        /\ Len(got[s]) >= 2
        /\ got[s][1].signal_id \in TrackerOf(s)
        /\ got[s][1] \in Range(QueueOf(got[s][1].master_id))
        /\ s2 \in SlavesOf(got[s][1].master_id)
        /\ got[s][1] \notin Range(got[s2])

----------------------------------------------------------------------------
(* C6 *)

\* C6: any two signals queued for a master have different signal ids, also
\* when they carry the same ticket and action.
C6_DistinctIds ==
    \A m \in DOMAIN signals_queue :
        \A i, j \in 1..Len(signals_queue[m]) :
            i # j => signals_queue[m][i].signal_id # signals_queue[m][j].signal_id

----------------------------------------------------------------------------
(* C9 *)

\* C9: after a clear of slave s, successive polls return every signal still in
\* the queue of master m, in arrival order; so once the queue is exhausted for
\* a cleared slave, the slave has received all of it since the clear.
C9_RedeliveredAfterClear ==
    \A m \in DOMAIN signals_queue : \A s \in Slaves :
        (clearedAt[s] >= 0 /\ ~trimmed[s] /\ Exhausted(m, s)) =>
            SelectSeq(GotSinceClear(s), LAMBDA e : e \in Range(signals_queue[m]))
                = signals_queue[m]

----------------------------------------------------------------------------
(* C4 *)

IsSuffix(a, b) == Len(a) <= Len(b) /\ a = SubSeq(b, Len(b) - Len(a) + 1, Len(b))

OtherTickets(q, t) == SelectSeq(q, LAMBDA e : e.master_ticket # t)

IsClose(e) == e.action \in {"CLOSE_TRADE", "DELETE_ORDER"}

\* this step appends a signal to the queue of master m
Appends(m) == accepted'[m] # accepted[m]

C4_Ingest ==
    \A m \in Masters :
        (Appends(m) /\ IsClose(Last(accepted'[m]))) =>
            LET sig == Last(accepted'[m])
                t == sig.master_ticket
                q == signals_queue'[m]
            IN /\ Last(q) = sig
               /\ \A i \in 1..Len(q) : q[i].master_ticket = t => i = Len(q)
               /\ IsSuffix(OtherTickets(q, t), OtherTickets(QueueOf(m), t))
               /\ Len(QueueOf(m)) < MaxQueueSize =>
                      OtherTickets(q, t) = OtherTickets(QueueOf(m), t)

C4_Poll ==
    \A s \in Slaves :
        Returns(s) =>
            ~\E e \in Range(accepted[Last(got'[s]).master_id]) :
                /\ IsClose(e)
                /\ e.master_ticket = Last(got'[s]).master_ticket
                /\ e.seq > Last(got'[s]).seq

\* C4: right after a CLOSE_TRADE or DELETE_ORDER for ticket t is ingested, the
\* queue holds one signal for t, the new one, in the last place, and the
\* signals of the other tickets in their former order; and no poll returns a
\* signal for which a later close or delete of its ticket was ingested.
C4_Supersession == [][C4_Ingest /\ C4_Poll]_vars

\* a close was ingested last; it removed a signal of its ticket and left two
\* signals of another ticket, which a slave then polled
C4_Witness ==
    /\ Len(accepted["M1"]) = 4
    /\ IsClose(Last(accepted["M1"]))
    /\ Len(QueueOf("M1")) = 3
    /\ Last(QueueOf("M1")) = Last(accepted["M1"])
    /\ \A i \in 1..2 : QueueOf("M1")[i].master_ticket # Last(accepted["M1"]).master_ticket
    /\ \E k \in 1..3 : accepted["M1"][k].master_ticket = Last(accepted["M1"]).master_ticket
    /\ got["S1"] = <<QueueOf("M1")[1]>>

----------------------------------------------------------------------------
(* C5 *)

IsNew(e) == e.action \in {"NEW_TRADE", "NEW_PENDING"}

SameTriple(a, b) ==
    /\ a.master_ticket = b.master_ticket
    /\ a.action = b.action
    /\ a.symbol = b.symbol

C5_Queue ==
    \A m \in DOMAIN signals_queue :
        \A i, j \in 1..Len(signals_queue[m]) :
            (i < j /\ IsNew(signals_queue[m][i]) /\ IsNew(signals_queue[m][j])) =>
                ~SameTriple(signals_queue[m][i], signals_queue[m][j])

C5_Ingest ==
    /\ \A m \in Masters :
           (Appends(m) /\ IsNew(Last(accepted'[m]))) =>
               ~\E e \in Range(QueueOf(m)) : IsNew(e) /\ SameTriple(e, Last(accepted'[m]))
    /\ (arrivals' # arrivals /\ accepted' = accepted) => signals_queue' = signals_queue

\* C5: a NEW_TRADE or NEW_PENDING is appended only when the queue holds no
\* signal of its (ticket, action, symbol) triple, an upload that is not
\* appended leaves the queues unchanged, and a queue never holds two
\* NEW_TRADE/NEW_PENDING signals of one triple.
C5_Dedup == []C5_Queue /\ [][C5_Ingest]_vars

\* an upload was dropped while the queue holds two NEW signals that differ in
\* one component of the triple only
C5_Witness ==
    /\ arrivals > Len(accepted["M1"])
    /\ \E i, j \in 1..Len(QueueOf("M1")) :
           /\ i < j
           /\ IsNew(QueueOf("M1")[i]) /\ IsNew(QueueOf("M1")[j])
           /\ QueueOf("M1")[i].master_ticket = QueueOf("M1")[j].master_ticket
           /\ QueueOf("M1")[i].action = QueueOf("M1")[j].action

----------------------------------------------------------------------------
(* C7 *)

Min(a, b) == IF a < b THEN a ELSE b

C7_Queue ==
    \A m \in DOMAIN signals_queue :
        /\ Len(signals_queue[m]) <= MaxQueueSize
        /\ InArrivalOrder(signals_queue[m])

C7_Ingest ==
    \A m \in Masters :
        Appends(m) =>
            LET sig == Last(accepted'[m])
                rest == IF IsClose(sig)
                        THEN OtherTickets(QueueOf(m), sig.master_ticket)
                        ELSE QueueOf(m)
                q == signals_queue'[m]
            IN /\ Len(q) = Min(Len(rest) + 1, MaxQueueSize)
               /\ IsSuffix(q, Append(rest, sig))

\* C7: a queue never holds more than 50 signals and holds them in arrival
\* order; an append leaves the new signal last and, past 50, drops the oldest
\* signals only, so that the 50 most recently arrived remain.
C7_Capacity == []C7_Queue /\ [][C7_Ingest]_vars

\* 52 signals were stamped, the queue is full and its two oldest signals were
\* dropped
C7_Witness ==
    /\ arrivals = CapFilled + 3
    /\ Len(QueueOf("M1")) = MaxQueueSize
    /\ QueueOf("M1")[1].seq = 3
    /\ Last(QueueOf("M1")).seq = CapFilled + 3

----------------------------------------------------------------------------
(* C8 *)

\* the time since the signal was stamped, in ms
Age(e) == now - FromIsoFormat(e.server_timestamp)

Minutes(n) == n * 60 * MsPerSecond

\* the sweeper makes this step
Sweeps_ == wake' # wake

C8_Queue ==
    \A m \in DOMAIN signals_queue :
        /\ signals_queue[m] # <<>>
        /\ \A e \in Range(signals_queue[m]) : Age(e) < Minutes(11)

C8_Sweep ==
    Sweeps_ =>
        \A m \in DOMAIN signals_queue : \A e \in Range(signals_queue[m]) :
            /\ Age(e) <= Minutes(9) => m \in DOMAIN signals_queue' /\ e \in Range(signals_queue'[m])
            /\ Age(e) >= Minutes(10) => e \notin Range(QueueOf(m)')

----------------------------------------------------------------------------
(* C10 *)

\* C10: after a poll the processed set holds at most 200 ids, and a poll that
\* trims the set keeps the 200 ids inserted last, so the id of the signal the
\* poll returned is in the set afterwards.
C10_KeepsNewest ==
    [][\A s \in Slaves :
          Returns(s) =>
              /\ Cardinality(slave_processed_signals'[s]) <= MaxProcessed
              /\ Last(got'[s]).signal_id \in slave_processed_signals'[s]]_vars

----------------------------------------------------------------------------
(* C11 *)

\* the stores of the server: queues, registrations and processed sets
stores == <<signals_queue, slaves, slave_processed_signals>>

\* this step handles a request of the kind op
Serves(op) == last'.op = op

NeedsSymbol(action) ==
    action \in {"NEW_TRADE", "NEW_PENDING", "MODIFY_TRADE", "MODIFY_PENDING", "CLOSE_TRADE"}

\* the body fails validation
Invalid(body) ==
    \/ ~Has(body, "master_id") \/ ~Has(body, "action") \/ ~Has(body, "master_ticket")
    \/ body.master_id = "" \/ body.action = ""
    \/ body.action \notin valid_actions
    \/ NeedsSymbol(body.action) /\ ~Has(body, "symbol")

\* the body is a valid INIT_TEST or HEARTBEAT
Probe(body) == ~Invalid(body) /\ body.action \in {"INIT_TEST", "HEARTBEAT"}

\* C11: an upload that fails validation is answered with an error, a valid
\* INIT_TEST or HEARTBEAT is acknowledged, and both leave every queue, every
\* registration and every processed set as they were; no queue is created
\* for the master they name.
C11_NoEffect ==
    [][Serves("upload_signal") =>
          /\ Invalid(last'.request) =>
                 /\ last'.response.code = 400
                 /\ UNCHANGED stores
          /\ Probe(last'.request) =>
                 /\ last'.response.status = "acknowledged"
                 /\ UNCHANGED stores]_allvars

\* a HEARTBEAT of M2 was acknowledged; M1 has a queue and a slave with a
\* processed id, and M2, of which one upload was rejected or acknowledged,
\* has no queue
C11_Witness ==
    /\ last.op = "upload_signal"
    /\ Probe(last.request)
    /\ last.request.master_id = "M2"
    /\ QueueOf("M1") # <<>>
    /\ "M2" \notin DOMAIN signals_queue
    /\ TrackerOf("S1") # {}
    /\ "S1" \in SlavesOf("M1")

----------------------------------------------------------------------------
(* C12 *)

Named(body, k) == Has(body, k) /\ body[k] # ""

\* C12: a clear that names a master deletes that master's queue and no other;
\* a clear that names a slave empties that slave's processed set and no
\* other; a clear changes no registration, changes no queue unless it names a
\* master and no processed set unless it names a slave; a clear that names
\* neither changes nothing and answers nothing_to_clear.
C12_ClearFrame ==
    [][Serves("clear_signals") =>
          LET body == last'.request
          IN /\ slaves' = slaves
             /\ IF Named(body, "master_id")
                THEN /\ body.master_id \notin DOMAIN signals_queue'
                     /\ \A m \in Masters \ {body.master_id} :
                            /\ m \in DOMAIN signals_queue' <=> m \in DOMAIN signals_queue
                            /\ QueueOf(m)' = QueueOf(m)
                ELSE signals_queue' = signals_queue
             /\ IF Named(body, "slave_id")
                THEN /\ \A s \in Slaves : s = body.slave_id => TrackerOf(s)' = {}
                     /\ \A s \in Slaves \ {body.slave_id} :
                            /\ s \in DOMAIN slave_processed_signals'
                                   <=> s \in DOMAIN slave_processed_signals
                            /\ TrackerOf(s)' = TrackerOf(s)
                ELSE slave_processed_signals' = slave_processed_signals
             /\ (~Named(body, "master_id") /\ ~Named(body, "slave_id")) =>
                    last'.response = [status |-> "nothing_to_clear"]]_allvars

\* a clear that named M1 only deleted its queue of one signal and left the
\* queue of M2, the registration of S1 and the processed id of S1
C12_Witness ==
    /\ last.op = "clear_signals"
    /\ last.request = [master_id |-> "M1"]
    /\ last.response = [status |-> "cleared", master_queue |-> 1]
    /\ "M1" \notin DOMAIN signals_queue
    /\ QueueOf("M2") # <<>>
    /\ "S1" \in SlavesOf("M1")
    /\ TrackerOf("S1") # {}

----------------------------------------------------------------------------
(* C20 *)

\* a signal of the queue of master m that a poll by slave s can return
Deliverable(m, s) == {e \in Range(QueueOf(m)) : e.signal_id \notin TrackerOf(s)}

\* C20: a poll of master m by slave s leaves every queue and the processed
\* set of every other slave as they were, registers s with m and changes no
\* other registration, and returns a signal whenever the queue of m holds one
\* whose id s has not processed, whether s was registered or not.
C20_PollFrame ==
    [][(Serves("slave_poll") /\ last'.response.code = 200) =>
          LET m == last'.request.master_id
              s == last'.request.slave_id
          IN /\ signals_queue' = signals_queue
             /\ \A s2 \in Slaves \ {s} :
                    /\ s2 \in DOMAIN slave_processed_signals'
                           <=> s2 \in DOMAIN slave_processed_signals
                    /\ TrackerOf(s2)' = TrackerOf(s2)
             /\ \A m2 \in Masters :
                    SlavesOf(m2)' = SlavesOf(m2) \cup (IF m2 = m THEN {s} ELSE {})
             /\ Deliverable(m, s) # {} =>
                    /\ Len(last'.response.signals) = 1
                    /\ last'.response.signals[1] \in Deliverable(m, s)
                    /\ got'[s] = got[s] \o last'.response.signals
             /\ \A s2 \in Slaves \ {s} : \A m2 \in Masters :
                    Deliverable(m2, s2)' = Deliverable(m2, s2)]_allvars

\* S2, which only polls, received the signal that S1 had received before, and
\* the signal is still queued
C20_Witness ==
    /\ last.op = "slave_poll"
    /\ last.request.slave_id = "S2"
    /\ Len(last.response.signals) = 1
    /\ last.response.signals[1] \in Range(got["S1"])
    /\ last.response.signals[1] \in Range(QueueOf("M1"))
    /\ got["S2"] = last.response.signals

----------------------------------------------------------------------------
(* C18 *)

IsOpenOrModify(e) ==
    e.action \in {"NEW_TRADE", "NEW_PENDING", "MODIFY_TRADE", "MODIFY_PENDING"}

\* C18 as stated: in a queue no NEW_TRADE, NEW_PENDING, MODIFY_TRADE or
\* MODIFY_PENDING entry of a ticket stands behind a CLOSE_TRADE or DELETE_ORDER
\* entry of that ticket.
C18_CloseIsLast ==
    \A m \in DOMAIN signals_queue :
        \A i, j \in 1..Len(signals_queue[m]) :
            (i < j /\ IsClose(signals_queue[m][i]) /\ IsOpenOrModify(signals_queue[m][j])) =>
                signals_queue[m][j].master_ticket # signals_queue[m][i].master_ticket

C18_Queue ==
    \A m \in DOMAIN signals_queue :
        \A i, j \in 1..Len(signals_queue[m]) :
            (i < j /\ IsClose(signals_queue[m][j])) =>
                signals_queue[m][i].master_ticket # signals_queue[m][j].master_ticket

C18_Ingest ==
    \A m \in Masters :
        Appends(m) => Last(signals_queue'[m]) = Last(accepted'[m])

\* C18 as amended: in a queue no entry of a ticket stands before a
\* CLOSE_TRADE or DELETE_ORDER entry of that ticket, and an ingestion that
\* appends puts its entry last; so the entries of a ticket that were queued
\* when its close or delete arrived are gone, and those that arrive later
\* stand behind it.
C18_NothingBeforeClose == []C18_Queue /\ [][C18_Ingest]_vars

\* a modification of a ticket stands behind the close of the ticket, which
\* removed an earlier entry of the ticket
C18_Witness ==
    \E i, j \in 1..Len(QueueOf("M1")) :
        /\ i < j
        /\ IsClose(QueueOf("M1")[i])
        /\ IsOpenOrModify(QueueOf("M1")[j])
        /\ QueueOf("M1")[j].master_ticket = QueueOf("M1")[i].master_ticket
        /\ \E e \in Range(accepted["M1"]) :
               /\ e.master_ticket = QueueOf("M1")[i].master_ticket
               /\ e.seq < QueueOf("M1")[i].seq
               /\ e \notin Range(QueueOf("M1"))

----------------------------------------------------------------------------
(* C19 *)

\* C19: a poll of master m by slave s returns nothing only when every signal
\* in the queue of m was returned to s before.
C19_EmptyOnlyWhenAllReturned ==
    \A m \in Masters : \A s \in Slaves :
        PollResponse([slave_id |-> s, master_id |-> m]).signals = <<>> =>
            Range(QueueOf(m)) \subseteq Range(got[s])

----------------------------------------------------------------------------
(* C13 *)

\* C13: polls of one slave that overlap never return one signal twice: as
\* long as the processed set of slave s was neither cleared nor trimmed, the
\* signals returned to s are pairwise different.
C13_AtomicPoll ==
    \A s \in Slaves :
        (clearedAt[s] < 0 /\ ~trimmed[s]) =>
            \A i, j \in 1..Len(got[s]) : i # j => got[s][i] # got[s][j]

----------------------------------------------------------------------------
(* C14 *)

\* thread t ends an upload in this step with an internal error
Fails(t) == pc(t) \notin {"idle", "mark"} /\ pc(t)' = "idle" /\ last'.response.code = 500

\* C14: ingestions that overlap one another or a sweeper pass all succeed and
\* leave the queue that some order of them, one at a time, leaves: no
\* ingestion ends in an internal error, no queue holds two NEW_TRADE or
\* NEW_PENDING entries of one triple, and, where no clear deletes a queue, an
\* appended signal not yet ten minutes old leaves the queue only through a
\* close or delete of its ticket.
C14_AtomicIngest ==
    /\ ~(last.op = "upload_signal" /\ last.response.code = 500)
    /\ C5_Queue
    /\ \A m \in Masters : \A e \in Range(accepted[m]) :
           (e \notin Range(QueueOf(m)) /\ Age(e) < Minutes(10)) =>
               \E c \in Range(accepted[m]) :
                   IsClose(c) /\ c.master_ticket = e.master_ticket /\ c # e

----------------------------------------------------------------------------
(* C15 *)

\* C15: the sweeper thread never ends.
C15_SweeperRuns == pc("sweeper") # "dead"

----------------------------------------------------------------------------
(* C16 *)

\* C16: an upload that ends in an internal error has removed no entry from
\* the queue and leaves no empty queue that it created.
C16_FailedIngestNoEffect ==
    [][\A t \in Workers :
          Fails(t) =>
              /\ threads[t].removed = {}
              /\ \A m \in Masters :
                     (threads[t].created /\ m = threads[t].data.master_id) =>
                         ~(m \in DOMAIN signals_queue' /\ QueueOf(m)' = <<>>)]_allvars

----------------------------------------------------------------------------
(* C17 *)

\* C17: the entries that a sweeper pass decides to remove from a queue were
\* stamped at least 10 minutes before the time of the pass, and the entries
\* it keeps are in the order they have in the queue.
C17_SweepsOnlyOld ==
    [][(pc("sweeper") = "pass" /\ pc("sweeper")' = "store") =>
          /\ \A m \in Masters : m = threads'["sweeper"].master_id =>
                 \A e \in Range(QueueOf(m)) :
                     e \notin Range(threads'["sweeper"].kept) =>
                         threads'["sweeper"].time - FromIsoFormat(e.server_timestamp)
                             >= Minutes(10)
          /\ \A m \in Masters : m = threads'["sweeper"].master_id =>
                 threads'["sweeper"].kept =
                     SelectSeq(QueueOf(m), LAMBDA e : e \in Range(threads'["sweeper"].kept))]_allvars

====
